---- MODULE Spec2Model ----
(***************************************************************************)
(* PhytoScan: the scan workflow of App.tsx (upload, runAnalysis, history   *)
(* persistence, overlay timer) as a state machine.  React state variables  *)
(* keep their names.  The collaborators imported from ./imageProcessor,    *)
(* ./geminiService and ./constants are not part of the sources at hand:    *)
(* calculateSeverity and analyzeImageQuality follow spec.md 4.1 / 4.2, the *)
(* classifier is an environment that answers or fails.                     *)
(***************************************************************************)
EXTENDS Integers, Sequences, FiniteSets, TLC

----------------------------------------------------------------------------
(* Bounds of the model *)

\* analyses started in one session
MaxAnalyses == 2
\* SpecScore probes lesion counts k * CountStep and sizes k * SizeStep,
\* k in -1..MaxSteps
MaxSteps == 5
CountStep == 11
SizeStep == 45
\* analyses started in one session of SpecWide and SpecQuality
MaxWide == 1
\* FileReader loads in flight at once
MaxReaders == 1
\* the lesion count and the average lesion size (tenths of mm) that the
\* classifier reports when it reports lesions
MaxReport == 7

----------------------------------------------------------------------------
(* Program constants *)

\* [newItem, ...history].slice(0, 50)
HistoryCap == 50
\* file.size > 10 * 1024 * 1024
MaxFileSize == 10 * 1024 * 1024

\* null, for the state that holds a record or null
Null == [null |-> TRUE]

\* types.ts: DiseaseStage = 'H0' | 'E1' | 'E2' | 'E3' | 'N0'
DiseaseStage == {"H0", "E1", "E2", "E3", "N0"}
HealthyStages == {"H0", "N0"}

Min(a, b) == IF a <= b THEN a ELSE b

Take(s, n) == SubSeq(s, 1, Min(n, Len(s)))

----------------------------------------------------------------------------
(* SeverityScorer, spec.md 4.2.  Sizes are in tenths of a millimetre.      *)

InvalidInput == -1

BandFloor(stage) ==
  CASE stage = "E1" -> 1
    [] stage = "E2" -> 26
    [] stage = "E3" -> 61

BandCeil(stage) ==
  CASE stage = "E1" -> 25
    [] stage = "E2" -> 60
    [] stage = "E3" -> 100

\* the stage's reference maximum of the lesion count
LesionRef(stage) ==
  CASE stage = "E1" -> 10
    [] stage = "E2" -> 25
    [] stage = "E3" -> 50

\* the stage's reference maximum of the average lesion size
SizeRef(stage) ==
  CASE stage = "E1" -> 30
    [] stage = "E2" -> 80
    [] stage = "E3" -> 200

\* the scorer without the healthy-stage case
calculateSeverity_NoHealthy(stage, lesionCount, avgLesionSize) ==
  IF stage \notin DiseaseStage \/ lesionCount < 0 \/ avgLesionSize < 0
  THEN InvalidInput
  ELSE LET st == IF stage \in HealthyStages THEN "E1" ELSE stage
           lc == Min(lesionCount, LesionRef(st))
           sz == Min(avgLesionSize, SizeRef(st))
       IN  (IF stage \in HealthyStages THEN 0 ELSE BandFloor(st))
             + ((BandCeil(st) - BandFloor(st))
                  * (lc * SizeRef(st) + sz * LesionRef(st)))
                 \div (2 * LesionRef(st) * SizeRef(st))

\* the scorer without the clipping of its inputs
calculateSeverity_NoClip(stage, lesionCount, avgLesionSize) ==
  IF stage \notin DiseaseStage \/ lesionCount < 0 \/ avgLesionSize < 0
  THEN InvalidInput
  ELSE IF stage \in HealthyStages
  THEN 0
  ELSE BandFloor(stage)
         + ((BandCeil(stage) - BandFloor(stage))
              * (lesionCount * SizeRef(stage) + avgLesionSize * LesionRef(stage)))
             \div (2 * LesionRef(stage) * SizeRef(stage))

\* the scorer scaling the lesion load modulo the width of the band
calculateSeverity_Wraps(stage, lesionCount, avgLesionSize) ==
  IF stage \notin DiseaseStage \/ lesionCount < 0 \/ avgLesionSize < 0
  THEN InvalidInput
  ELSE IF stage \in HealthyStages
  THEN 0
  ELSE LET span == BandCeil(stage) - BandFloor(stage)
           load == (span * (lesionCount * SizeRef(stage)
                              + avgLesionSize * LesionRef(stage)))
                     \div (2 * LesionRef(stage) * SizeRef(stage))
       IN  BandFloor(stage) + (load % (span + 1))

calculateSeverity(stage, lesionCount, avgLesionSize) ==
  IF stage \notin DiseaseStage \/ lesionCount < 0 \/ avgLesionSize < 0
  THEN InvalidInput
  ELSE IF stage \in HealthyStages
  THEN 0
  ELSE LET lc == Min(lesionCount, LesionRef(stage))
           sz == Min(avgLesionSize, SizeRef(stage))
           span == BandCeil(stage) - BandFloor(stage)
       IN  BandFloor(stage)
             + (span * (lc * SizeRef(stage) + sz * LesionRef(stage)))
                 \div (2 * LesionRef(stage) * SizeRef(stage))

----------------------------------------------------------------------------
(* QualityAnalyzer, spec.md 4.1, on abstract images.  Image 0 has an empty *)
(* pixel buffer; image i > 0 is structurally valid and its pixels yield    *)
(* the defects encoded by the bits of i - 1.                               *)

Bit(n, k) == (n \div (2 ^ k)) % 2 = 1

\* every image: the malformed one and one per combination of defects (an
\* image is not both too dark and too bright)
AllImages == {i \in 0..32 : i = 0 \/ ~(Bit(i - 1, 0) /\ Bit(i - 1, 4))}

\* the malformed image, a clean one and a dark one
Images == {0, 1, 2}

\* the malformed image and a clean one
TwoImages == {0, 1}

InvalidImage == [error |-> "InvalidImage"]

analyzeImageQuality(img) ==
  IF img = 0
  THEN InvalidImage
  ELSE [isTooDark       |-> Bit(img - 1, 0),
        hasShadows      |-> Bit(img - 1, 1),
        isLowRes        |-> Bit(img - 1, 2),
        hasOverexposure |-> Bit(img - 1, 3),
        isTooBright     |-> Bit(img - 1, 4)]

----------------------------------------------------------------------------
(* The classifier's answers (geminiService.analyzePlantImage)              *)

\* confidence in percent
Confidences == {95}

\* a negative metric, none, some
Reports == {-1, 0, MaxReport}

\* every answer: any stage string, lesion metrics of either sign
AllAnswers ==
  [stage         : DiseaseStage \cup {"X9"},
   confidence    : Confidences,
   lesionCount   : Reports,
   avgLesionSize : Reports]

\* a healthy leaf with lesions reported, an infected one, an unknown stage
Answers ==
  {ai \in AllAnswers :
     /\ ai.stage \in {"H0", "E2", "X9"}
     /\ ai.lesionCount = MaxReport /\ ai.avgLesionSize = MaxReport}

\* constants.ts DISEASE_DATABASE[stage].name
DiseaseName(stage) ==
  CASE stage = "H0" -> "Healthy"
    [] stage = "N0" -> "No Disease Detected"
    [] stage = "E1" -> "Early Stage"
    [] stage = "E2" -> "Mid Stage"
    [] stage = "E3" -> "Late Stage"

----------------------------------------------------------------------------
(* Pure parts of runAnalysis and saveToHistory                             *)

\* qualityIssues set for an image that is too bright as well
QualityIssues_Bright(quality) ==
  IF quality.isTooDark \/ quality.hasShadows \/ quality.isLowRes
       \/ quality.hasOverexposure \/ quality.isTooBright
  THEN [tooDark     |-> quality.isTooDark,
        shadows     |-> quality.hasShadows,
        lowRes      |-> quality.isLowRes,
        overexposed |-> quality.hasOverexposure]
  ELSE Null

QualityIssues(quality) ==
  IF quality.isTooDark \/ quality.hasShadows \/ quality.isLowRes
       \/ quality.hasOverexposure
  THEN [tooDark     |-> quality.isTooDark,
        shadows     |-> quality.hasShadows,
        lowRes      |-> quality.isLowRes,
        overexposed |-> quality.hasOverexposure]
  ELSE Null

\* the record taking the classifier's count as reported
ForcedLesionCount_Raw(ai) == ai.lesionCount

ForcedLesionCount(ai) ==
  IF ai.stage = "N0" \/ ai.stage = "H0" THEN 0 ELSE ai.lesionCount

ForcedLesionSize(ai) ==
  IF ai.stage = "N0" \/ ai.stage = "H0" THEN 0 ELSE ai.avgLesionSize

FinalResult(ai, quality, severityScore, timestamp) ==
  [stage         |-> ai.stage,
   confidence    |-> ai.confidence,
   diseaseName   |-> DiseaseName(ai.stage),
   lesionCount   |-> ForcedLesionCount(ai),
   avgLesionSize |-> ForcedLesionSize(ai),
   severityScore |-> severityScore,
   timestamp     |-> timestamp,
   qualityIssues |-> QualityIssues(quality)]

\* a history item stamped with the time of the save, not of the result
NewItem_Restamped(res, id) ==
  [id            |-> id,
   timestamp     |-> res.timestamp + 1,
   stage         |-> res.stage,
   diseaseName   |-> res.diseaseName,
   confidence    |-> res.confidence,
   severityScore |-> res.severityScore]

NewItem(res, id) ==
  [id            |-> id,
   timestamp     |-> res.timestamp,
   stage         |-> res.stage,
   diseaseName   |-> res.diseaseName,
   confidence    |-> res.confidence,
   severityScore |-> res.severityScore]

\* the log without its cap
UpdatedHistory_NoCap(newItem, hist) == <<newItem>> \o hist

\* the log with the new item at its end
UpdatedHistory_AtEnd(newItem, hist) == Take(hist \o <<newItem>>, HistoryCap)

UpdatedHistory(newItem, hist) == Take(<<newItem>> \o hist, HistoryCap)

\* the stored text of a history list: one tuple per item, in key order
JSONstringify(hist) ==
  [i \in 1..Len(hist) |->
     <<hist[i].id, hist[i].timestamp, hist[i].stage, hist[i].diseaseName,
       hist[i].confidence, hist[i].severityScore>>]

JSONparse(text) ==
  [i \in 1..Len(text) |->
     [id            |-> text[i][1],
      timestamp     |-> text[i][2],
      stage         |-> text[i][3],
      diseaseName   |-> text[i][4],
      confidence    |-> text[i][5],
      severityScore |-> text[i][6]]]

\* localStorage['kangkung_analysis_history']: no key, a stored list, or
\* text that JSON.parse rejects
NoKey == [kind |-> "absent", text |-> <<>>]
Stored(text) == [kind |-> "json", text |-> text]
Garbled == [kind |-> "corrupt", text |-> <<>>]

\* what earlier sessions of the program left behind
StageOf(i) ==
  CASE i % 5 = 0 -> "H0"
    [] i % 5 = 1 -> "E1"
    [] i % 5 = 2 -> "E2"
    [] i % 5 = 3 -> "E3"
    [] i % 5 = 4 -> "N0"

PriorItem(i) ==
  [id            |-> 0 - i,
   timestamp     |-> 0,
   stage         |-> StageOf(i),
   diseaseName   |-> DiseaseName(StageOf(i)),
   confidence    |-> 95,
   severityScore |-> calculateSeverity(StageOf(i), i % 7, i % 11)]

PriorHistory(n) == [i \in 1..n |-> PriorItem(i)]

PriorStorage ==
  {NoKey, Garbled, Stored(JSONstringify(PriorHistory(1)))}

\* a log that earlier sessions filled up to, or next to, its cap
FullStorage ==
  {Stored(JSONstringify(PriorHistory(n))) : n \in {HistoryCap - 1, HistoryCap}}

----------------------------------------------------------------------------
(* State *)

VARIABLES
  mounted,        \* the mount effect (useEffect, []) has run
  selectedImage,  \* useState: data URL of the chosen image, or null
  analyzing,      \* useState
  result,         \* useState: AnalysisResult or null
  activeTab,      \* useState
  imageQuality,   \* useState: ImageQuality or null
  history,        \* useState: HistoryItem[]
  showOverlay,    \* useState
  storage,        \* localStorage['kangkung_analysis_history']
  readers,        \* FileReader loads in flight (the images being read)
  timers,         \* pending setTimeout(() => setShowOverlay(true), 1500)
  pc,             \* where the running runAnalysis is suspended
  capImage,       \* selectedImage as closed over by the running runAnalysis
  capHistory,     \* history as closed over by its saveToHistory
  quality,        \* runAnalysis local
  aiResult,       \* runAnalysis local
  finalResult,    \* runAnalysis local
  scorerCall,     \* arguments of the run's calculateSeverity call
  calls,          \* what the running runAnalysis has invoked so far, in order
  nruns,          \* analyses started
  alertMsg,       \* the modal alert() on screen, "" if none
  probe,          \* SpecScore: two calls of calculateSeverity side by side
  album           \* the images on the user's device

react == <<selectedImage, analyzing, result, activeTab, imageQuality, history,
           showOverlay>>
locals == <<pc, capImage, capHistory, quality, aiResult, finalResult,
            scorerCall, calls>>
vars == <<mounted, react, storage, readers, timers, locals, nruns, alertMsg,
          probe, album>>

Tabs == {"scanner", "database", "history"}

NotAnImage == "Please upload an image file."
TooLarge == "Image file is too large (max 10MB)."
AnalysisFailed == "Failed to analyze image. Please check your internet connection and try again."

\* the files a user may pick: MIME class, byte size, pixel content
Files ==
  [isImage : BOOLEAN,
   size    : {MaxFileSize - 1, MaxFileSize, MaxFileSize + 1},
   content : album]

DataUrl(img) == [data |-> img]

InitWith(stores, albums) ==
  /\ album \in albums
  /\ mounted = FALSE
  /\ selectedImage = Null
  /\ analyzing = FALSE
  /\ result = Null
  /\ activeTab = "scanner"
  /\ imageQuality = Null
  /\ history = <<>>
  /\ showOverlay = FALSE
  /\ storage \in stores
  /\ readers = <<>>
  /\ timers = 0
  /\ pc = "idle"
  /\ capImage = Null
  /\ capHistory = <<>>
  /\ quality = Null
  /\ aiResult = Null
  /\ finalResult = Null
  /\ scorerCall = Null
  /\ calls = <<>>
  /\ nruns = 0
  /\ alertMsg = ""
  /\ probe = Null

Init == InitWith(PriorStorage, {Images})

----------------------------------------------------------------------------
(* Operations.  alert() is modal: while one is on screen no handler, timer *)
(* or promise continuation runs, and the handler that raised it resumes    *)
(* when the user dismisses it.  The part of runAnalysis after its last     *)
(* await runs to completion: between ClassifierResolved and Return (pc =   *)
(* "finally") nothing else is scheduled.  The locals of a runAnalysis are  *)
(* dropped when it returns.                                                *)

\* useEffect(() => {...}, []): load the history on mount
Mount ==
  /\ ~mounted
  /\ mounted' = TRUE
  /\ history' = IF storage.kind = "json" THEN JSONparse(storage.text) ELSE history
  /\ UNCHANGED <<probe, album, selectedImage, analyzing, result, activeTab,
                 imageQuality, showOverlay, storage, readers, timers, locals,
                 nruns, alertMsg>>

\* the three nav buttons
SetActiveTab(tab) ==
  /\ mounted /\ alertMsg = "" /\ pc # "finally"
  /\ tab # activeTab
  /\ activeTab' = tab
  /\ UNCHANGED <<probe, album, mounted, selectedImage, analyzing, result, imageQuality,
                 history, showOverlay, storage, readers, timers, locals, nruns,
                 alertMsg>>

\* handleImageUpload rejecting a file of exactly 10 MB as well
HandleImageUpload_AtLimit(file) ==
  /\ mounted /\ alertMsg = "" /\ pc # "finally"
  /\ activeTab = "scanner"
  /\ selectedImage = Null
  /\ IF ~file.isImage
     THEN alertMsg' = NotAnImage /\ UNCHANGED readers
     ELSE IF file.size >= MaxFileSize
     THEN alertMsg' = TooLarge /\ UNCHANGED readers
     ELSE /\ Len(readers) < MaxReaders
          /\ readers' = Append(readers, file.content)
          /\ UNCHANGED alertMsg
  /\ UNCHANGED <<probe, album, mounted, react, storage, timers, locals, nruns>>

\* handleImageUpload; the file input is rendered while no image is selected
HandleImageUpload(file) ==
  /\ mounted /\ alertMsg = "" /\ pc # "finally"
  /\ activeTab = "scanner"
  /\ selectedImage = Null
  /\ IF ~file.isImage
     THEN alertMsg' = NotAnImage /\ UNCHANGED readers
     ELSE IF file.size > MaxFileSize
     THEN alertMsg' = TooLarge /\ UNCHANGED readers
     ELSE /\ Len(readers) < MaxReaders
          /\ readers' = Append(readers, file.content)
          /\ UNCHANGED alertMsg
  /\ UNCHANGED <<probe, album, mounted, react, storage, timers, locals, nruns>>

\* reader.onloadend; reader.result is null when the read failed
ReaderLoadEnd(i, ok) ==
  /\ alertMsg = "" /\ pc # "finally"
  /\ i \in 1..Len(readers)
  /\ readers' = SubSeq(readers, 1, i - 1) \o SubSeq(readers, i + 1, Len(readers))
  /\ selectedImage' = IF ok THEN DataUrl(readers[i]) ELSE Null
  /\ result' = Null
  /\ imageQuality' = Null
  /\ showOverlay' = FALSE
  /\ UNCHANGED <<probe, album, mounted, analyzing, activeTab, history, storage, timers,
                 locals, nruns, alertMsg>>

\* runAnalysis starting the quality check and the classifier together
RunAnalysis_Parallel(maxRuns) ==
  /\ mounted /\ alertMsg = ""
  /\ activeTab = "scanner"
  /\ ~analyzing
  /\ selectedImage # Null
  /\ nruns < maxRuns
  /\ nruns' = nruns + 1
  /\ analyzing' = TRUE
  /\ showOverlay' = FALSE
  /\ pc' = "quality"
  /\ capImage' = selectedImage
  /\ capHistory' = history
  /\ quality' = Null
  /\ aiResult' = Null
  /\ finalResult' = Null
  /\ scorerCall' = Null
  /\ calls' = <<"analyzeImageQuality", "analyzePlantImage">>
  /\ UNCHANGED <<probe, album, mounted, selectedImage, result, activeTab, imageQuality,
                 history, storage, readers, timers, alertMsg>>

\* runAnalysis behind a button that is not disabled while analyzing
RunAnalysis_Reentrant(maxRuns) ==
  /\ mounted /\ alertMsg = "" /\ pc # "finally"
  /\ activeTab = "scanner"
  /\ selectedImage # Null
  /\ nruns < maxRuns
  /\ nruns' = nruns + 1
  /\ analyzing' = TRUE
  /\ showOverlay' = FALSE
  /\ pc' = "quality"
  /\ capImage' = selectedImage
  /\ capHistory' = history
  /\ quality' = Null
  /\ aiResult' = Null
  /\ finalResult' = Null
  /\ scorerCall' = Null
  /\ calls' = <<"analyzeImageQuality">>
  /\ UNCHANGED <<probe, album, mounted, selectedImage, result, activeTab, imageQuality,
                 history, storage, readers, timers, alertMsg>>

\* runAnalysis up to its first await; the button is disabled while analyzing
RunAnalysis(maxRuns) ==
  /\ mounted /\ alertMsg = ""
  /\ activeTab = "scanner"
  /\ ~analyzing
  /\ selectedImage # Null
  /\ nruns < maxRuns
  /\ nruns' = nruns + 1
  /\ analyzing' = TRUE
  /\ showOverlay' = FALSE
  /\ pc' = "quality"
  /\ capImage' = selectedImage
  /\ capHistory' = history
  /\ quality' = Null
  /\ aiResult' = Null
  /\ finalResult' = Null
  /\ scorerCall' = Null
  /\ calls' = <<"analyzeImageQuality">>
  /\ UNCHANGED <<probe, album, mounted, selectedImage, result, activeTab, imageQuality,
                 history, storage, readers, timers, alertMsg>>

\* catch (error) { alert(...) }
Catch ==
  /\ alertMsg' = AnalysisFailed
  /\ pc' = "catch"

\* a runAnalysis that gives up on an image with a reported defect
QualityResolved_Strict ==
  /\ alertMsg = ""
  /\ pc = "quality"
  /\ analyzeImageQuality(capImage.data) # InvalidImage
  /\ quality' = analyzeImageQuality(capImage.data)
  /\ imageQuality' = quality'
  /\ IF QualityIssues(quality') # Null
     THEN Catch /\ UNCHANGED calls
     ELSE /\ pc' = "classify"
          /\ calls' = Append(calls, "analyzePlantImage")
          /\ UNCHANGED alertMsg
  /\ UNCHANGED <<probe, album, mounted, selectedImage, analyzing, result, activeTab,
                 history, showOverlay, storage, readers, timers, capImage,
                 capHistory, aiResult, finalResult, scorerCall, nruns>>

\* await analyzeImageQuality(selectedImage) resolves
QualityResolved ==
  /\ alertMsg = ""
  /\ pc = "quality"
  /\ analyzeImageQuality(capImage.data) # InvalidImage
  /\ quality' = analyzeImageQuality(capImage.data)
  /\ imageQuality' = quality'
  /\ pc' = "classify"
  /\ calls' = Append(calls, "analyzePlantImage")
  /\ UNCHANGED <<probe, album, mounted, selectedImage, analyzing, result, activeTab, history,
                 showOverlay, storage, readers, timers, capImage, capHistory,
                 aiResult, finalResult, scorerCall, nruns, alertMsg>>

\* a runAnalysis that swallows the rejection and goes on to classify
QualityRejected_GoesOn ==
  /\ alertMsg = ""
  /\ pc = "quality"
  /\ analyzeImageQuality(capImage.data) = InvalidImage
  /\ pc' = "classify"
  /\ calls' = Append(calls, "analyzePlantImage")
  /\ quality' = analyzeImageQuality(1)
  /\ UNCHANGED <<probe, album, mounted, react, storage, readers, timers, capImage,
                 capHistory, aiResult, finalResult, scorerCall, nruns, alertMsg>>

\* await analyzeImageQuality(selectedImage) rejects
QualityRejected ==
  /\ alertMsg = ""
  /\ pc = "quality"
  /\ analyzeImageQuality(capImage.data) = InvalidImage
  /\ Catch
  /\ UNCHANGED <<probe, album, mounted, react, storage, readers, timers, capImage,
                 capHistory, quality, aiResult, finalResult, scorerCall, calls,
                 nruns>>

\* a catch block that also wipes the history
ClassifierRejected_Wipes ==
  /\ alertMsg = ""
  /\ pc = "classify"
  /\ Catch
  /\ history' = <<>>
  /\ storage' = NoKey
  /\ UNCHANGED <<probe, album, mounted, selectedImage, analyzing, result, activeTab,
                 imageQuality, showOverlay, readers, timers, capImage,
                 capHistory, quality, aiResult, finalResult, scorerCall, calls,
                 nruns>>

\* await analyzePlantImage(selectedImage) rejects
ClassifierRejected ==
  /\ alertMsg = ""
  /\ pc = "classify"
  /\ Catch
  /\ UNCHANGED <<probe, album, mounted, react, storage, readers, timers, capImage,
                 capHistory, quality, aiResult, finalResult, scorerCall, calls,
                 nruns>>

\* the call that clamps negative metrics to zero first
ScorerArgs_Clamped(ai) ==
  [stage |-> ai.stage,
   lesionCount |-> IF ai.lesionCount < 0 THEN 0 ELSE ai.lesionCount,
   avgLesionSize |-> IF ai.avgLesionSize < 0 THEN 0 ELSE ai.avgLesionSize]

\* the arguments runAnalysis hands to calculateSeverity
ScorerArgs(ai) ==
  [stage |-> ai.stage, lesionCount |-> ai.lesionCount,
   avgLesionSize |-> ai.avgLesionSize]

\* await analyzePlantImage(selectedImage) resolves with ai; the rest of the
\* try block runs to its end.  writeOk: localStorage.setItem does not throw.
ClassifierResolved(ai, writeOk) ==
  /\ alertMsg = ""
  /\ pc = "classify"
  /\ aiResult' = ai
  /\ scorerCall' = ScorerArgs(ai)
  /\ LET severityScore ==
           calculateSeverity(scorerCall'.stage, scorerCall'.lesionCount,
                             scorerCall'.avgLesionSize)
         res == FinalResult(ai, quality, severityScore, nruns)
         updatedHistory == UpdatedHistory(NewItem(res, nruns), capHistory)
     IN  IF severityScore = InvalidInput
         THEN /\ calls' = Append(calls, "calculateSeverity")
              /\ Catch
              /\ UNCHANGED <<finalResult, result, history, storage, timers>>
         ELSE /\ calls' = calls \o <<"calculateSeverity", "setResult", "saveToHistory">>
              /\ finalResult' = res
              /\ result' = res
              /\ history' = updatedHistory
              /\ IF writeOk
                 THEN /\ storage' = Stored(JSONstringify(updatedHistory))
                      /\ timers' = IF ai.stage # "H0" /\ ai.stage # "N0"
                                   THEN timers + 1 ELSE timers
                      /\ pc' = "finally"
                      /\ UNCHANGED alertMsg
                 ELSE /\ Catch
                      /\ UNCHANGED <<storage, timers>>
  /\ UNCHANGED <<probe, album, mounted, analyzing, selectedImage, activeTab, imageQuality, showOverlay,
                 readers, capImage, capHistory, quality, nruns>>

\* finally { setAnalyzing(false) }, and runAnalysis returns
Finally ==
  /\ analyzing' = FALSE
  /\ pc' = "idle"
  /\ capImage' = Null
  /\ capHistory' = <<>>
  /\ quality' = Null
  /\ aiResult' = Null
  /\ finalResult' = Null
  /\ scorerCall' = Null
  /\ calls' = <<>>

\* the try block of runAnalysis has run to its end
Return ==
  /\ pc = "finally"
  /\ Finally
  /\ UNCHANGED <<probe, album, mounted, selectedImage, result, activeTab, imageQuality,
                 history, showOverlay, storage, readers, timers, nruns,
                 alertMsg>>

\* a runAnalysis whose flag is cleared at the end of the try block only
DismissAlert_NoFinally ==
  /\ alertMsg # ""
  /\ alertMsg' = ""
  /\ IF pc = "catch"
     THEN /\ pc' = "idle"
          /\ capImage' = Null
          /\ capHistory' = <<>>
          /\ quality' = Null
          /\ aiResult' = Null
          /\ finalResult' = Null
          /\ scorerCall' = Null
          /\ calls' = <<>>
          /\ UNCHANGED analyzing
     ELSE UNCHANGED <<analyzing, locals>>
  /\ UNCHANGED <<probe, album, mounted, selectedImage, result, activeTab, imageQuality,
                 history, showOverlay, storage, readers, timers, nruns>>

\* the user dismisses the alert; a runAnalysis stopped in its catch block
\* goes on to its finally block
DismissAlert ==
  /\ alertMsg # ""
  /\ alertMsg' = ""
  /\ IF pc = "catch" THEN Finally ELSE UNCHANGED <<analyzing, locals>>
  /\ UNCHANGED <<probe, album, mounted, selectedImage, result, activeTab, imageQuality,
                 history, showOverlay, storage, readers, timers, nruns>>

\* the 1500 ms timer of a finished analysis fires
OverlayTimer ==
  /\ alertMsg = "" /\ pc # "finally"
  /\ timers > 0
  /\ timers' = timers - 1
  /\ showOverlay' = TRUE
  /\ UNCHANGED <<probe, album, mounted, selectedImage, analyzing, result, activeTab,
                 imageQuality, history, storage, readers, locals, nruns,
                 alertMsg>>

\* the heat-map button: onClick={() => setShowOverlay(!showOverlay)}
ToggleOverlay ==
  /\ mounted /\ alertMsg = "" /\ pc # "finally"
  /\ activeTab = "scanner"
  /\ selectedImage # Null
  /\ result # Null
  /\ result.stage # "H0" /\ result.stage # "N0"
  /\ showOverlay' = ~showOverlay
  /\ UNCHANGED <<probe, album, mounted, selectedImage, analyzing, result, activeTab,
                 imageQuality, history, storage, readers, timers, locals, nruns,
                 alertMsg>>

\* resetScanner; its button is rendered while an image is selected
ResetScanner ==
  /\ mounted /\ alertMsg = "" /\ pc # "finally"
  /\ activeTab = "scanner"
  /\ selectedImage # Null
  /\ selectedImage' = Null
  /\ result' = Null
  /\ imageQuality' = Null
  /\ showOverlay' = FALSE
  /\ UNCHANGED <<probe, album, mounted, analyzing, activeTab, history, storage, readers,
                 timers, locals, nruns, alertMsg>>

\* clearHistory; its button is rendered while the history is not empty
ClearHistory(confirmed) ==
  /\ mounted /\ alertMsg = "" /\ pc # "finally"
  /\ activeTab = "history"
  /\ Len(history) > 0
  /\ IF confirmed
     THEN history' = <<>> /\ storage' = NoKey
     ELSE UNCHANGED <<history, storage>>
  /\ UNCHANGED <<probe, album, mounted, selectedImage, analyzing, result, activeTab,
                 imageQuality, showOverlay, readers, timers, locals, nruns,
                 alertMsg>>

\* the program in an environment that gives the classifier answers of the
\* given set and starts at most maxRuns analyses
NextOver(answers, maxRuns) ==
  \/ Mount
  \/ \E tab \in Tabs : SetActiveTab(tab)
  \/ \E file \in Files : HandleImageUpload(file)
  \/ \E i \in 1..MaxReaders, ok \in BOOLEAN : ReaderLoadEnd(i, ok)
  \/ RunAnalysis(maxRuns)
  \/ QualityResolved
  \/ QualityRejected
  \/ \E ai \in answers, writeOk \in BOOLEAN : ClassifierResolved(ai, writeOk)
  \/ ClassifierRejected
  \/ Return
  \/ DismissAlert
  \/ OverlayTimer
  \/ ToggleOverlay
  \/ ResetScanner
  \/ \E confirmed \in BOOLEAN : ClearHistory(confirmed)

Next == NextOver(Answers, MaxAnalyses)

Spec == Init /\ [][Next]_vars

\* few analyses on a fresh installation, over every answer of the classifier
NextWide == NextOver(AllAnswers, MaxWide)

InitWide == InitWith({NoKey}, {TwoImages})

SpecWide == InitWide /\ [][NextWide]_vars

\* few analyses on a fresh installation; the device holds the malformed
\* image and one valid image, which may be any
NextQuality == NextOver(Answers, MaxWide)

InitFresh == InitWith({NoKey}, {{0, img} : img \in AllImages \ {0}})

SpecQuality == InitFresh /\ [][NextQuality]_vars

\* a log at its cap
InitFull == InitWith(FullStorage, {TwoImages})

SpecFull == InitFull /\ [][Next]_vars

\* the same sessions with the scheduling of the event loop: a promise that
\* settles has its continuation run (the quality check and the classifier
\* call return or fail), a handler that is running runs to its end, and the
\* user dismisses an alert that is on screen
ClassifierSettles ==
  \/ \E ai \in Answers, writeOk \in BOOLEAN : ClassifierResolved(ai, writeOk)
  \/ ClassifierRejected

Fairness ==
  /\ SF_vars(QualityResolved)
  /\ SF_vars(QualityRejected)
  /\ SF_vars(ClassifierSettles)
  /\ WF_vars(Return)
  /\ WF_vars(DismissAlert)

SpecLive == InitWide /\ [][NextQuality]_vars /\ Fairness

----------------------------------------------------------------------------
(* The scorer on its own: two calls on arbitrary arguments                 *)

ScorerInputs ==
  [stage         : DiseaseStage,
   lesionCount   : {k * CountStep : k \in -1..MaxSteps},
   avgLesionSize : {k * SizeStep : k \in -1..MaxSteps}]

Score(in) == calculateSeverity(in.stage, in.lesionCount, in.avgLesionSize)

InitScore ==
  /\ mounted = FALSE
  /\ selectedImage = Null
  /\ analyzing = FALSE
  /\ result = Null
  /\ activeTab = "scanner"
  /\ imageQuality = Null
  /\ history = <<>>
  /\ showOverlay = FALSE
  /\ storage = NoKey
  /\ readers = <<>>
  /\ timers = 0
  /\ pc = "idle"
  /\ capImage = Null
  /\ capHistory = <<>>
  /\ quality = Null
  /\ aiResult = Null
  /\ finalResult = Null
  /\ scorerCall = Null
  /\ calls = <<>>
  /\ nruns = 0
  /\ alertMsg = ""
  /\ album = {}
  /\ probe \in [a : ScorerInputs, b : ScorerInputs, done : {FALSE},
                 outA : {0}, outB : {0}]

ScoreBoth ==
  /\ probe # Null
  /\ ~probe.done
  /\ probe' = [probe EXCEPT !.done = TRUE, !.outA = Score(probe.a),
                             !.outB = Score(probe.b)]
  /\ UNCHANGED <<mounted, react, storage, readers, timers, locals, nruns,
                 alertMsg, album>>

NextScore == ScoreBoth

SpecScore == InitScore /\ [][NextScore]_vars

TypeOK ==
  /\ mounted \in BOOLEAN
  /\ analyzing \in BOOLEAN
  /\ showOverlay \in BOOLEAN
  /\ activeTab \in Tabs
  /\ pc \in {"idle", "quality", "classify", "catch", "finally"}
  /\ timers \in 0..MaxAnalyses
  /\ nruns \in 0..MaxAnalyses
  /\ alertMsg \in {"", NotAnImage, TooLarge, AnalysisFailed}

----------------------------------------------------------------------------
(* Properties *)

Range(seq) == {seq[i] : i \in 1..Len(seq)}

Valid(ai) ==
  ai.stage \in DiseaseStage /\ ai.lesionCount >= 0 /\ ai.avgLesionSize >= 0

\* C1: a result record assembled by runAnalysis has lesionCount = 0 and
\* avgLesionSize = 0 when the classifier's stage is H0 or N0, whatever the
\* classifier reported, and the classifier's values for E1, E2, E3; so does
\* the record on display.
C1_LesionsForcedToZero ==
  /\ finalResult # Null =>
       /\ finalResult.stage = aiResult.stage
       /\ IF aiResult.stage \in {"H0", "N0"}
          THEN finalResult.lesionCount = 0 /\ finalResult.avgLesionSize = 0
          ELSE /\ finalResult.lesionCount = aiResult.lesionCount
               /\ finalResult.avgLesionSize = aiResult.avgLesionSize
  /\ (result # Null /\ result.stage \in {"H0", "N0"}) =>
       result.lesionCount = 0 /\ result.avgLesionSize = 0

\* a healthy stage was reported together with lesions, and the record is set
C1_Witness ==
  /\ finalResult # Null
  /\ result = finalResult
  /\ aiResult.stage = "H0"
  /\ aiResult.lesionCount > 0
  /\ aiResult.avgLesionSize > 0

\* C2: the history, in memory and as written to local storage, never has
\* more than 50 entries.
C2_HistoryCapped ==
  /\ Len(history) <= HistoryCap
  /\ storage.kind = "json" => Len(storage.text) <= HistoryCap

\* two analyses were saved on top of a log that was full or one short of it
C2_Witness ==
  /\ Len(history) = HistoryCap
  /\ history[1].id = 2
  /\ history[2].id = 1
  /\ storage = Stored(JSONstringify(history))

\* the step of runAnalysis that calls saveToHistory
SaveStep == pc = "classify" /\ finalResult' # Null

\* C3: saveToHistory puts the new entry at index 0, keeps each entry that was
\* in the history one place further back and unmodified, and drops an entry
\* only from the tail and only when the length would exceed 50.
C3_MostRecentFirst ==
  [][SaveStep =>
       /\ history'[1] = NewItem(finalResult', nruns)
       /\ \A i \in 1..Len(history) :
            \/ i + 1 <= Len(history') /\ history'[i + 1] = history[i]
            \/ i = Len(history) /\ Len(history) + 1 > HistoryCap
       /\ Len(history') <= HistoryCap]_vars

\* a save onto a full log has just dropped the oldest entry
C3_Witness ==
  /\ pc = "finally"
  /\ Len(capHistory) = HistoryCap
  /\ Len(history) = HistoryCap
  /\ history[1] = NewItem(finalResult, nruns)
  /\ history[2] = capHistory[1]
  /\ history[HistoryCap] = capHistory[HistoryCap - 1]

\* the step in which the classifier's promise rejects
ClassifierFails == pc = "classify" /\ pc' = "catch" /\ aiResult' = Null

\* C4: when the classifier call fails the user is alerted, and the history in
\* memory, the persisted history and the result record stay as they were.
C4_ClassifierFailure ==
  [][ClassifierFails =>
       /\ alertMsg' = AnalysisFailed
       /\ history' = history
       /\ storage' = storage
       /\ result' = result]_vars

\* the classifier failed while there was a history to lose
C4_Witness ==
  /\ pc = "catch"
  /\ aiResult = Null
  /\ calls = <<"analyzeImageQuality", "analyzePlantImage">>
  /\ alertMsg = AnalysisFailed
  /\ Len(history) > 0
  /\ storage.kind = "json"

\* C5: for stage H0 or N0 the lesion count and size that runAnalysis passes to
\* the scorer are zero.
C5_ScorerArgsForced ==
  (scorerCall # Null /\ scorerCall.stage \in {"H0", "N0"}) =>
     scorerCall.lesionCount = 0 /\ scorerCall.avgLesionSize = 0

\* C6: whatever defects a successful quality assessment reports, runAnalysis
\* goes on to call the classifier, and a valid answer of the classifier gives
\* a result record and a history entry.
C6_QualityInformational ==
  /\ quality # Null =>
       /\ Len(calls) >= 2
       /\ calls[2] = "analyzePlantImage"
       /\ pc \in {"classify", "finally", "catch"}
  /\ (aiResult # Null /\ Valid(aiResult)) =>
       /\ finalResult # Null
       /\ result = finalResult
       /\ Len(history) >= 1
       /\ history[1] = NewItem(finalResult, nruns)

\* an image that is dark, shadowed, low-resolution and overexposed at once
\* was analysed to the end
C6_Witness ==
  /\ quality # Null
  /\ quality.isTooDark /\ quality.hasShadows /\ quality.isLowRes
  /\ quality.hasOverexposure
  /\ pc = "finally"
  /\ result = finalResult
  /\ history[1] = NewItem(finalResult, nruns)

\* the step in which the quality assessment rejects, and what follows in
\* that runAnalysis
QualityFails ==
  \/ pc = "quality" /\ pc' # "quality"
       /\ analyzeImageQuality(capImage.data) = InvalidImage
  \/ pc = "catch" /\ quality = Null

\* C7: after InvalidImage the analysis stops: neither classifier nor scorer is
\* called, imageQuality and result keep their values, the history gets no
\* entry.
C7_InvalidImageStops ==
  [][QualityFails =>
       /\ calls' \in {<<>>, <<"analyzeImageQuality">>}
       /\ pc' \in {"catch", "idle"}
       /\ scorerCall' = Null
       /\ imageQuality' = imageQuality
       /\ result' = result
       /\ history' = history
       /\ storage' = storage]_vars

\* the malformed image was submitted while a history existed
C7_Witness ==
  /\ pc = "catch"
  /\ quality = Null
  /\ capImage = DataUrl(0)
  /\ calls = <<"analyzeImageQuality">>
  /\ Len(history) > 0

StageOrder ==
  <<"analyzeImageQuality", "analyzePlantImage", "calculateSeverity",
    "setResult", "saveToHistory">>

\* C8: one runAnalysis goes through quality check, classifier, scorer and
\* persistence in this order, each stage starting after the one before it has
\* delivered its output.
C8_StagesInOrder ==
  /\ Len(calls) <= Len(StageOrder)
  /\ calls = SubSeq(StageOrder, 1, Len(calls))
  /\ "analyzePlantImage" \in Range(calls) => quality # Null
  /\ "calculateSeverity" \in Range(calls) => aiResult # Null
  /\ "saveToHistory" \in Range(calls) =>
       /\ finalResult # Null
       /\ finalResult.severityScore = Score(scorerCall)

\* a runAnalysis went through all its stages
C8_Witness ==
  /\ calls = StageOrder
  /\ pc = "finally"

\* C9: the score of H0 and of N0 is 0 for every lesion count and size, so
\* every result record and every history entry of stage H0 or N0 has
\* severity 0.
C9_HealthyScoresZero ==
  /\ (scorerCall # Null /\ Valid(scorerCall) /\ scorerCall.stage \in {"H0", "N0"}) =>
       finalResult # Null /\ finalResult.severityScore = 0
  /\ (result # Null /\ result.stage \in {"H0", "N0"}) => result.severityScore = 0
  /\ \A i \in 1..Len(history) :
       history[i].stage \in {"H0", "N0"} => history[i].severityScore = 0
  /\ storage.kind = "json" =>
       \A i \in 1..Len(storage.text) :
         JSONparse(storage.text)[i].stage \in {"H0", "N0"}
           => JSONparse(storage.text)[i].severityScore = 0

\* N0 was reported with lesions, scored and saved
C9_Witness ==
  /\ scorerCall # Null
  /\ scorerCall.stage = "N0"
  /\ scorerCall.lesionCount > 0
  /\ scorerCall.avgLesionSize > 0
  /\ result # Null /\ result.stage = "N0"
  /\ Len(history) >= 1 /\ history[1].stage = "N0"
  /\ storage = Stored(JSONstringify(history))

Rank(stage) ==
  CASE stage \in {"H0", "N0"} -> 0
    [] stage = "E1" -> 1
    [] stage = "E2" -> 2
    [] stage = "E3" -> 3

\* C10: over non-negative lesion inputs every score lies in 0..100 and a score
\* of a lower stage is never above a score of a higher stage (H0/N0, E1, E2,
\* E3).
C10_BandsDoNotOverlap ==
  (probe # Null /\ probe.done /\ Valid(probe.a) /\ Valid(probe.b)) =>
     /\ probe.outA \in 0..100
     /\ probe.outB \in 0..100
     /\ Rank(probe.a.stage) < Rank(probe.b.stage) => probe.outA <= probe.outB

\* E1 beyond its reference maxima against E2 with no lesions at all
C10_Witness ==
  /\ probe # Null /\ probe.done
  /\ probe.a.stage = "E1"
  /\ probe.a.lesionCount > LesionRef("E1")
  /\ probe.a.avgLesionSize > SizeRef("E1")
  /\ probe.b.stage = "E2"
  /\ probe.b.lesionCount = 0 /\ probe.b.avgLesionSize = 0
  /\ probe.outA = 25 /\ probe.outB = 26

\* a is at most b in both lesion inputs, at the same stage
LessLesions(a, b) ==
  /\ a.stage = b.stage
  /\ a.lesionCount <= b.lesionCount
  /\ a.avgLesionSize <= b.avgLesionSize

\* C11: at one stage and over non-negative inputs, a call with no fewer and no
\* smaller lesions than another never scores lower; in particular when only
\* the count, or only the size, grows.
C11_MonotonicWithinStage ==
  (/\ probe # Null /\ probe.done
   /\ Valid(probe.a) /\ Valid(probe.b)
   /\ LessLesions(probe.a, probe.b))
    => probe.outA <= probe.outB

\* E2 with the size fixed and the count grown beyond its reference maximum
C11_Witness ==
  /\ probe # Null /\ probe.done
  /\ probe.a.stage = "E2" /\ probe.b.stage = "E2"
  /\ probe.a.avgLesionSize = probe.b.avgLesionSize
  /\ probe.a.avgLesionSize > 0
  /\ probe.a.lesionCount > 0
  /\ probe.a.lesionCount < LesionRef("E2")
  /\ probe.b.lesionCount > LesionRef("E2")
  /\ probe.outA < probe.outB

\* the step in which the classifier answers with inputs out of the scorer's
\* range
InvalidAnswer == pc = "classify" /\ aiResult' # Null /\ ~Valid(aiResult')

\* C12: when the classifier reports a negative lesion count, a negative lesion
\* size or a stage outside H0, N0, E1, E2, E3, the scorer is called and fails:
\* the user is alerted, no result record is set and the history, in memory and
\* persisted, gets no entry.
C12_InvalidInputSurfaced ==
  [][InvalidAnswer =>
       /\ calls' = Append(calls, "calculateSeverity")
       /\ Score(scorerCall') = InvalidInput
       /\ pc' = "catch"
       /\ alertMsg' = AnalysisFailed
       /\ finalResult' = Null
       /\ result' = result
       /\ history' = history
       /\ storage' = storage]_vars

\* a known infected stage was reported with a negative lesion count
C12_Witness ==
  /\ pc = "catch"
  /\ aiResult # Null
  /\ aiResult.stage = "E2"
  /\ aiResult.lesionCount < 0
  /\ aiResult.avgLesionSize > 0
  /\ finalResult = Null
  /\ result = Null
  /\ history = <<>>

\* C13: handleImageUpload rejects a file that is not of an image type, or is
\* larger than 10 * 1024 * 1024 bytes, with an alert: no read of the file is
\* started, so it is never selected or analysed, and selectedImage, result,
\* imageQuality and history stay as they were.  An image file of at most
\* 10 * 1024 * 1024 bytes is handed to a FileReader.
C13_UploadRejected ==
  [][\A file \in Files :
       HandleImageUpload(file) =>
         IF ~file.isImage \/ file.size > MaxFileSize
         THEN /\ alertMsg' \in {NotAnImage, TooLarge}
              /\ readers' = readers
              /\ selectedImage' = selectedImage
              /\ result' = result
              /\ imageQuality' = imageQuality
              /\ history' = history
              /\ storage' = storage
              /\ pc' = pc /\ analyzing' = analyzing
         ELSE /\ alertMsg' = ""
              /\ readers' = Append(readers, file.content)]_vars

\* an upload was turned down while a history existed
C13_Witness ==
  /\ alertMsg \in {NotAnImage, TooLarge}
  /\ selectedImage = Null
  /\ readers = <<>>
  /\ Len(history) > 0

\* the places of a history that hold the entry of the given analysis
EntriesOf(hist, id) == {i \in 1..Len(hist) : hist[i].id = id}

\* C14: the step of a successful analysis that sets the result record puts
\* into the history exactly one entry for this analysis, with the stage,
\* confidence, severityScore and timestamp of the record on display.
C14_EntryMatchesResult ==
  [][SaveStep =>
       /\ result' = finalResult'
       /\ EntriesOf(history, nruns) = {}
       /\ EntriesOf(history', nruns) = {1}
       /\ history'[1].stage = result'.stage
       /\ history'[1].confidence = result'.confidence
       /\ history'[1].severityScore = result'.severityScore
       /\ history'[1].timestamp = result'.timestamp]_vars

\* the second analysis of a session has been saved on top of the first
C14_Witness ==
  /\ pc = "finally"
  /\ nruns = 2
  /\ result = finalResult
  /\ result.stage = "E2"
  /\ EntriesOf(history, 2) = {1}
  /\ EntriesOf(history, 1) = {2}
  /\ history[1].timestamp = result.timestamp
  /\ history[1].severityScore = result.severityScore

\* one of the four reported defects is flagged
AnyDefect(q) ==
  q.isTooDark \/ q.hasShadows \/ q.isLowRes \/ q.hasOverexposure

\* C15: the qualityIssues of an assembled result is null exactly when the
\* quality report of its image flags none of dark, shadowed, low-resolution,
\* overexposed; otherwise its four fields are the four flags.
C15_QualityIssuesMatchFlags ==
  finalResult # Null =>
    /\ (finalResult.qualityIssues # Null) <=> AnyDefect(quality)
    /\ finalResult.qualityIssues # Null =>
         /\ finalResult.qualityIssues.tooDark = quality.isTooDark
         /\ finalResult.qualityIssues.shadows = quality.hasShadows
         /\ finalResult.qualityIssues.lowRes = quality.isLowRes
         /\ finalResult.qualityIssues.overexposed = quality.hasOverexposure

\* an image that is only too bright gave a result without quality issues
C15_Witness ==
  /\ finalResult # Null
  /\ result = finalResult
  /\ quality.isTooBright
  /\ ~AnyDefect(quality)
  /\ finalResult.qualityIssues = Null

\* the step in which a runAnalysis starts
StartStep == nruns' = nruns + 1

\* C16: a runAnalysis starts only while analyzing is false and no earlier
\* runAnalysis is between its start and its finally block, and analyzing is
\* true as long as one is; so at most one analysis is in flight.
C16_OneAnalysisInFlight ==
  [][/\ StartStep => ~analyzing /\ pc = "idle"
     /\ pc' # "idle" => analyzing']_vars

\* while an analysis waits for the classifier, the user has reset the scanner
\* and selected another image: the button is on screen, and disabled
C16_Witness ==
  /\ analyzing
  /\ pc = "classify"
  /\ activeTab = "scanner"
  /\ alertMsg = ""
  /\ selectedImage # Null
  /\ selectedImage # capImage
  /\ nruns < MaxAnalyses

\* C17: a result record is on display only while an image is selected, and
\* the step that sets it sets a record computed from the image selected then.
C17_ResultOfSelectedImage ==
  [][/\ result' # Null => selectedImage' # Null
     /\ SaveStep => selectedImage' = capImage]_vars

\* the entries of the persisted history
StoredEntries(store) == Range(JSONparse(store.text))

\* the entry that the running analysis creates
IsNewEntry(e) == pc = "classify" /\ e.id = nruns

\* C18: a confirmed clearHistory leaves the history empty in memory and in
\* local storage, a declined one leaves both as they were, and no step brings
\* back an entry that is in neither: each entry of the history after a step
\* was in the history or in local storage before it, or is the new entry of
\* the analysis that saves in this step.
C18_ClearedStaysCleared ==
  [][/\ \A e \in Range(history') \cup StoredEntries(storage') :
          \/ e \in Range(history) \cup StoredEntries(storage)
          \/ IsNewEntry(e)
     /\ \A confirmed \in BOOLEAN :
          ClearHistory(confirmed) =>
            IF confirmed
            THEN history' = <<>> /\ storage' = NoKey
            ELSE history' = history /\ storage' = storage]_vars

\* the persisted history reads back as the history in memory
InSync(hist, store) == store.kind # "corrupt" /\ JSONparse(store.text) = hist

\* a step that completes saveToHistory, a confirmed clearHistory or a
\* mount-load of a stored list
SyncStep ==
  \/ SaveStep
  \/ ClearHistory(TRUE)
  \/ Mount /\ storage.kind = "json"

\* C19: after saveToHistory, after a confirmed clearHistory and after a
\* mount-load that parsed the stored text, local storage holds the history
\* that is in memory (no key standing for the empty list).
C19_StorageMatchesMemory ==
  [][SyncStep => InSync(history', storage')]_vars

\* C20: analyzing is true only between the start of a runAnalysis and its
\* finally block, and whenever it is true it becomes false again, whether the
\* analysis succeeds or fails.
C20_AnalyzingEventuallyCleared ==
  /\ [](analyzing => pc # "idle")
  /\ analyzing ~> ~analyzing

\* an analysis has failed, the alert is gone and the flag is cleared
C20_Witness ==
  /\ nruns = 1
  /\ ~analyzing
  /\ pc = "idle"
  /\ alertMsg = ""
  /\ selectedImage = DataUrl(0)
  /\ result = Null
  /\ history = <<>>

\* C21: the overlay flag is on only while a result record of stage E1, E2 or
\* E3 is set.
C21_OverlayOnlyForInfected ==
  showOverlay => result # Null /\ result.stage \in {"E1", "E2", "E3"}

====
